---- MODULE Spec2Model ----
(***************************************************************************)
(* Model of the ResourcesStore durable object of remix-guide               *)
(* (src/worker/context/store.ts): the store built by createResourceStore   *)
(* (submit, refresh, view, bookmark, unbookmark), the fetch handler that   *)
(* wraps it (/backup and /restore included), the actor's durable storage,  *)
(* the two in-memory dedup indices, and the PAGE and CONTENT KV stores;    *)
(* and of what createStore, the facade in front of it, makes of the        *)
(* actor's responses.                                                      *)
(*                                                                         *)
(* Left out of the records: the page fields author, description, image,    *)
(* video, dependencies, configs, the page's own timestamps and the derived *)
(* integrations; no modelled decision of the store reads them.  Of the     *)
(* page-derived fields of a Resource the content store keeps the title.    *)
(***************************************************************************)
EXTENDS Naturals, Sequences, FiniteSets

\* ---------------------------------------------------------------- domains
URLs == {"a", "b"}
Users == {"u1", "u2"}
Ids == {"i1", "i2"}
Titles == {"t1"}
Categories == {"package", "others"}
Procs == {"p1", "p2"}

\* Bounds of the model: the views counted and the bookmarks held over all
\* resources, and the refreshes that write a summary back.
MaxViews == 2
MaxBookmarks == 2
MaxRefreshes == 1

\* Bound of the interleaved runs: the invocations one caller begins.
MaxCalls == 1

\* Bound of the claims about repeated calls: the calls made in a row.
MaxRepeat == 3

\* the order in which unused ids are handed out (ids are opaque to the code)
IdOrder == <<"i1", "i2">>

NoId == "null"
NoUser == "nobody"
NoUrl == "nourl"
Absent == [absent |-> TRUE]

IndexURLKey == "index/URL"
IndexPackageNameKey == "index/PackageName"
StorageKeys == Ids \cup {IndexURLKey, IndexPackageNameKey}

EmptyURLIndex == [u \in URLs |-> NoId]
EmptyPackageNameIndex == [t \in Titles |-> NoId]

\* What the scraper, the page details and the safety check can answer.
ScrapedPages == [url : URLs, isSafe : BOOLEAN, category : Categories, title : Titles]

VARIABLES
    storage,                  \* state.storage: key -> summary, index blob or Absent
    resourceIdByURL,          \* in-memory index of the current store
    resourceIdByPackageName,  \* in-memory index of the current store
    PAGE,                     \* env.PAGE: url -> page or Absent
    CONTENT,                  \* env.CONTENT: resource id -> resource + metadata or Absent
    now,                      \* the clock read by new Date()
    backup,                   \* the dump of /backup that the caller keeps
    thisStore,                \* this.store: "null" until createResourceStore answers
    retired,                  \* the indices of a store that /restore replaced while
                              \* invocations of it were suspended, else Absent
    inflight                  \* per caller: the invocation suspended at an await,
                              \* or what it returned (interleaved runs)

vars == <<storage, resourceIdByURL, resourceIdByPackageName, PAGE, CONTENT, now,
          backup, thisStore, retired, inflight>>

\* ---------------------------------------------------------------- helpers
IsPresent(v) == v # Absent

\* the actor's state as one value, for the handlers to transform
Current ==
    [storage |-> storage, resourceIdByURL |-> resourceIdByURL,
     resourceIdByPackageName |-> resourceIdByPackageName,
     PAGE |-> PAGE, CONTENT |-> CONTENT, now |-> now, thisStore |-> thisStore]

\* the constructor's blockConcurrencyWhile has let createResourceStore finish
Built == thisStore = "built"

Stored(st) == {i \in Ids : IsPresent(st.storage[i])}

\* state.storage.get of an index blob, `?? {}` applied to a missing one
LoadIndex(store, key, empty) ==
    IF IsPresent(store[key]) THEN store[key].map ELSE empty

\* ids generateId() can answer: those in use nowhere
FreshIds(st) ==
    {i \in Ids : /\ ~IsPresent(st.storage[i])
                 /\ ~IsPresent(st.CONTENT[i])
                 /\ \A u \in URLs : st.resourceIdByURL[u] # i
                 /\ \A t \in Titles : st.resourceIdByPackageName[t] # i}

\* generateId(): ids are random and never compared, so the unused ids are
\* handed out in one fixed order
GenerateId(st) ==
    IF FreshIds(st) = {} THEN NoId
    ELSE IdOrder[CHOOSE k \in 1..Len(IdOrder) :
                    /\ IdOrder[k] \in FreshIds(st)
                    /\ \A j \in 1..(k - 1) : IdOrder[j] \notin FreshIds(st)]

NewSummary(id, page, userId, time) ==
    [id |-> id, url |-> page.url, bookmarked |-> <<>>, viewCounts |-> 0,
     createdAt |-> time, createdBy |-> userId,
     updatedAt |-> time, updatedBy |-> userId]

\* the Resource written to CONTENT and its metadata sidecar
ContentEntry(summary, page) ==
    [resource |-> [id |-> summary.id, url |-> summary.url,
                   bookmarked |-> summary.bookmarked,
                   viewCounts |-> summary.viewCounts,
                   createdAt |-> summary.createdAt, createdBy |-> summary.createdBy,
                   updatedAt |-> summary.updatedAt, updatedBy |-> summary.updatedBy,
                   title |-> page.title],
     metadata |-> [id |-> summary.id, url |-> summary.url,
                   title |-> page.title,
                   viewCounts |-> summary.viewCounts,
                   bookmarkCounts |-> Len(summary.bookmarked),
                   createdAt |-> summary.createdAt]]

\* updateResourceCache: the page given, else the page stored under the
\* summary's url; with no page it throws and CONTENT is left as it was.
UpdateResourceCache(content, pages, summary, pageData) ==
    LET page == IF IsPresent(pageData) THEN pageData ELSE pages[summary.url]
    IN  IF IsPresent(page)
        THEN [content EXCEPT ![summary.id] = ContentEntry(summary, page)]
        ELSE content

\* state.storage.put(resource.id, resource)
PutSummary(store, summary) == [store EXCEPT ![summary.id] = summary]

\* state.storage.put('index/...', map)
PutIndex(store, key, map) == [store EXCEPT ![key] = [map |-> map]]

\* updateResource(resource, page): the summary, then the content store
UpdateResource(st, summary, pageData) ==
    [st EXCEPT !.storage = PutSummary(st.storage, summary),
               !.CONTENT = UpdateResourceCache(st.CONTENT, st.PAGE, summary, pageData)]

\* getResource(resourceId)
GetResource(st, resourceId) ==
    IF resourceId \in Ids THEN st.storage[resourceId] ELSE Absent

Includes(seq, x) == \E k \in 1..Len(seq) : seq[k] = x

Filter(seq, x) == SelectSeq(seq, LAMBDA y : y # x)

\* what a handler leaves behind: the state, its return value (ok, or id and
\* submission status), the status of fetch's response, the stores it put to
Outcome(st, ok, http, id, submission, wrote) ==
    [state |-> st, ok |-> ok, http |-> http, id |-> id,
     submission |-> submission, wrote |-> wrote]

\* (mutant) fetch without `if (!this.store) throw`
FetchUnguarded(st, o) == o

\* fetch's catch: 500 'Internal Server Error'
ServerError(st) == Outcome(st, FALSE, 500, NoId, "none", {})

\* fetch: a request that finds this.store null throws, which the catch turns
\* into the 500 response; else the route's handler answers
Fetch(st, o) == IF st.thisStore = "null" THEN ServerError(st) ELSE o

\* (mutant) 200 'OK' without the `if (success)`
RespondOK(st, success, wrote) == Outcome(st, success, 200, NoId, "none", wrote)

\* fetch: 200 'OK' on success, else the 'Not found' response it started with
Respond(st, success, wrote) ==
    Outcome(st, success, IF success THEN 200 ELSE 404, NoId, "none", wrote)

\* a caller with no invocation under way and none returned
Idle ==
    [pc |-> "idle", op |-> "none", ok |-> FALSE, id |-> NoId, submission |-> "none",
     page |-> Absent, resource |-> Absent, userId |-> NoUser, calls |-> 0,
     of |-> "current"]

\* ---------------------------------------------------------------- Init
\* the constructor has returned: this.store is null and no index is loaded
Init ==
    /\ storage = [k \in StorageKeys |-> Absent]
    /\ resourceIdByURL = EmptyURLIndex
    /\ resourceIdByPackageName = EmptyPackageNameIndex
    /\ thisStore = "null"
    /\ retired = Absent
    /\ PAGE = [u \in URLs |-> Absent]
    /\ CONTENT = [i \in Ids |-> Absent]
    /\ now = 0
    /\ backup = [taken |-> FALSE, data |-> [k \in StorageKeys |-> Absent]]
    /\ inflight = [p \in Procs |-> Idle]

\* ---------------------------------------------------------------- the store
\* submit: `resourceIdByURL[page.url] ?? null`
LookupURL(index, page) == index[page.url]

\* (mutant) the url is never registered
RegisterURLNowhere(index, page, id) == index

\* submit: `resourceIdByURL[page.url] = id`
RegisterURL(index, page, id) == [index EXCEPT ![page.url] = id]

\* createResource: `resourceIdByPackageName[page.title] = id`
RegisterPackageName(index, page, id) == [index EXCEPT ![page.title] = id]

\* createResource(page, userId): its result and the state it leaves
CreateResource(st, page, userId) ==
    IF ~page.isSafe
    THEN [state |-> st, id |-> NoId, status |-> "INVALID"]
    ELSE LET id == GenerateId(st)
             updated == UpdateResource([st EXCEPT !.now = @ + 1],
                                       NewSummary(id, page, userId, st.now), page)
             names == RegisterPackageName(st.resourceIdByPackageName, page, id)
         IN  [state |-> IF page.category = "package"
                        THEN [updated EXCEPT
                                !.resourceIdByPackageName = names,
                                !.storage = PutIndex(@, IndexPackageNameKey, names)]
                        ELSE updated,
              id |-> id, status |-> "PUBLISHED"]

\* the page submit works on: the one stored under url, else the scraped one
SubmittedPage(st, url, scraped) ==
    IF IsPresent(st.PAGE[url]) THEN st.PAGE[url] ELSE scraped

\* the pages submit can come to work on: the one stored under url, else
\* whatever scraping url answers
Answers(st, url) == IF IsPresent(st.PAGE[url]) THEN {st.PAGE[url]} ELSE ScrapedPages

\* store.submit(userId, url) and fetch's 201 response
SubmitOutcome(st, userId, url, scraped) ==
    LET cached == IsPresent(st.PAGE[url])
        page == SubmittedPage(st, url, scraped)
        st1 == IF cached THEN st ELSE [st EXCEPT !.PAGE[page.url] = page]
        pageWrite == IF cached THEN {} ELSE {"PAGE"}
        known == LookupURL(st1.resourceIdByURL, page)
    IN  IF known # NoId
        THEN Outcome(st1, TRUE, 201, known, "RESUBMITTED", pageWrite)
        ELSE LET r == CreateResource(st1, page, userId)
                 index == RegisterURL(r.state.resourceIdByURL, page, r.id)
             IN  IF r.id # NoId
                 THEN Outcome([r.state EXCEPT
                                 !.resourceIdByURL = index,
                                 !.storage = PutIndex(@, IndexURLKey, index)],
                              TRUE, 201, r.id, r.status,
                              pageWrite \cup {"storage", "CONTENT"})
                 ELSE Outcome(r.state, TRUE, 201, r.id, r.status, pageWrite)

\* store.submit(userId, url) when the CONTENT.put of updateResourceCache
\* rejects: the summary is already in actor storage, createResource and
\* submit stop at the await, and fetch's catch answers 500; a submit that
\* creates nothing makes no such call and ends as usual
SubmitFailing(st, userId, url, scraped) ==
    LET cached == IsPresent(st.PAGE[url])
        page == SubmittedPage(st, url, scraped)
        st1 == IF cached THEN st ELSE [st EXCEPT !.PAGE[page.url] = page]
        pageWrite == IF cached THEN {} ELSE {"PAGE"}
        known == LookupURL(st1.resourceIdByURL, page)
        summary == NewSummary(GenerateId(st1), page, userId, st1.now)
    IN  IF known # NoId \/ ~page.isSafe
        THEN SubmitOutcome(st, userId, url, scraped)
        ELSE Outcome([st1 EXCEPT !.now = @ + 1,
                                 !.storage = PutSummary(@, summary)],
                     FALSE, 500, NoId, "none", pageWrite \cup {"storage"})

\* (mutant) updatedAt and updatedBy are set by every refresh
RefreshedAlways(resource, page, userId, time) ==
    [resource EXCEPT !.url = page.url, !.updatedAt = time, !.updatedBy = userId]

\* refresh: the summary written back, its url moved when the page's differs
Refreshed(resource, page, userId, time) ==
    IF resource.url # page.url
    THEN [resource EXCEPT !.url = page.url, !.updatedAt = time, !.updatedBy = userId]
    ELSE resource

\* refresh: PAGE.put under the page's url, and under the old url when it moved
RefreshedPages(pages, resource, page) ==
    LET put == [pages EXCEPT ![page.url] = page]
    IN  IF resource.url # page.url THEN [put EXCEPT ![resource.url] = page] ELSE put

\* store.refresh(userId, resourceId) and fetch's response
RefreshOutcome(st, userId, resourceId, scraped) ==
    LET resource == GetResource(st, resourceId)
    IN  IF ~IsPresent(resource)
        THEN Respond(st, FALSE, {})
        ELSE Respond(UpdateResource(
                         [st EXCEPT !.PAGE = RefreshedPages(@, resource, scraped),
                                    !.now = @ + 1],
                         Refreshed(resource, scraped, userId, st.now), scraped),
                     TRUE, {"PAGE", "storage", "CONTENT"})

\* store.getDetails(resourceId) and fetch's response: the body is what
\* getResource answered; updateResourceCache is started and not awaited
GetDetailsOutcome(st, resourceId) ==
    LET resource == GetResource(st, resourceId)
    IN  IF ~IsPresent(resource)
        THEN [state |-> st, http |-> 404, body |-> Absent, wrote |-> {}]
        ELSE [state |-> [st EXCEPT !.CONTENT =
                                      UpdateResourceCache(@, st.PAGE, resource, Absent)],
              http |-> 200, body |-> resource, wrote |-> {"CONTENT"}]

\* (mutant) the view is not counted
ViewedUncounted(resource) == resource

\* view: `{...resource, viewCounts: resource.viewCounts + 1}`
Viewed(resource) == [resource EXCEPT !.viewCounts = @ + 1]

\* store.view(resourceId) and fetch's response
ViewOutcome(st, resourceId) ==
    LET resource == GetResource(st, resourceId)
    IN  IF ~IsPresent(resource)
        THEN Respond(st, FALSE, {})
        ELSE Respond(UpdateResource(st, Viewed(resource), Absent),
                     TRUE, {"storage", "CONTENT"})

\* the calls of view that can fail: storage.get in getResource, storage.put
\* and CONTENT.put in updateResource
ViewCalls == {"get", "put", "content"}

\* store.view(resourceId) when `call` fails, and fetch's response.  view
\* awaits getResource, whose exception reaches fetch's catch; it does not
\* await updateResource, whose rejection nothing observes.
ViewFailing(st, resourceId, call) ==
    LET resource == GetResource(st, resourceId)
    IN  IF call = "get" /\ resourceId # NoId
        THEN ServerError(st)
        ELSE IF ~IsPresent(resource)
        THEN Respond(st, FALSE, {})
        ELSE IF call = "put"
        THEN Respond(st, TRUE, {})
        ELSE Respond([st EXCEPT !.storage = PutSummary(@, Viewed(resource))],
                     TRUE, {"storage"})

\* (mutant) concat without the `includes` test
AddBookmarkAgain(bookmarked, userId) == Append(bookmarked, userId)

\* bookmark: the list after `includes` / `concat`
AddBookmark(bookmarked, userId) ==
    IF ~Includes(bookmarked, userId) THEN Append(bookmarked, userId) ELSE bookmarked

\* unbookmark: the list after `includes` / `filter`
RemoveBookmark(bookmarked, userId) ==
    IF Includes(bookmarked, userId) THEN Filter(bookmarked, userId) ELSE bookmarked

\* (mutant) the list is written back whether it changed or not
IsModifiedAlways(bookmarked, resource) == TRUE

\* `bookmarked !== resource.bookmarked`: concat and filter answer a new
\* array, which is another list than the stored one exactly when they ran
IsModified(bookmarked, resource) == bookmarked # resource.bookmarked

\* the tail bookmark and unbookmark share
WriteBookmarked(st, resource, bookmarked) ==
    IF IsModified(bookmarked, resource)
    THEN Respond(UpdateResource(st, [resource EXCEPT !.bookmarked = bookmarked],
                                Absent),
                 TRUE, {"storage", "CONTENT"})
    ELSE Respond(st, TRUE, {})

\* store.bookmark(userId, resourceId) and fetch's response
BookmarkOutcome(st, userId, resourceId) ==
    LET resource == GetResource(st, resourceId)
    IN  IF ~IsPresent(resource)
        THEN Respond(st, FALSE, {})
        ELSE WriteBookmarked(st, resource, AddBookmark(resource.bookmarked, userId))

\* store.unbookmark(userId, resourceId) and fetch's response
UnbookmarkOutcome(st, userId, resourceId) ==
    LET resource == GetResource(st, resourceId)
    IN  IF ~IsPresent(resource)
        THEN Respond(st, FALSE, {})
        ELSE WriteBookmarked(st, resource, RemoveBookmark(resource.bookmarked, userId))

\* /backup: Object.fromEntries(state.storage.list())
BackupData(st) == st.storage

\* /restore: state.storage.put(data) writes the keys of data
RestoredStorage(store, data) ==
    [k \in StorageKeys |-> IF IsPresent(data[k]) THEN data[k] ELSE store[k]]

\* /restore: the put, then createResourceStore(state, env) again
RestoreOutcome(st, data) ==
    LET store == RestoredStorage(st.storage, data)
    IN  Respond([st EXCEPT
                   !.storage = store,
                   !.resourceIdByURL = LoadIndex(store, IndexURLKey, EmptyURLIndex),
                   !.resourceIdByPackageName =
                       LoadIndex(store, IndexPackageNameKey, EmptyPackageNameIndex)],
                TRUE, {"storage"})

\* ---------------------------------------------------------------- createStore
\* What the facade makes of the actor's response `o`: whether the call throws
\* to its caller, what it returns, the cache keys whose removal it hands to
\* ctx.waitUntil.  The user store it also calls is taken to answer.

\* response.ok
ResponseOk(o) == o.http \in 200..299

Thrown == [raised |-> TRUE, result |-> Absent, removes |-> {}]

Returned(result, removes) == [raised |-> FALSE, result |-> result, removes |-> removes]

\* (mutant) the list cache is dropped after every submission
RemovedOnSubmitAlways(status) == {"resources"}

\* submit: `if (status === 'PUBLISHED') ctx.waitUntil(removeCache('resources'))`
RemovedOnSubmit(status) == IF status = "PUBLISHED" THEN {"resources"} ELSE {}

\* createStore.submit; the removal runs under ctx.waitUntil, so whether it
\* fails (removeCacheFails) reaches neither the result nor the caller
CreateStoreSubmit(o, removeCacheFails) ==
    IF ~ResponseOk(o) THEN Thrown
    ELSE Returned([id |-> o.id, status |-> o.submission], RemovedOnSubmit(o.submission))

\* createStore.refresh
CreateStoreRefresh(o, resourceId) ==
    IF ~ResponseOk(o) THEN Thrown ELSE Returned(Absent, {<<"resources", resourceId>>})

\* createStore.query when the cache and CONTENT have no entry:
\* `response.ok ? await response.json() : null`
CreateStoreQuery(o, resourceId) ==
    Returned(IF ResponseOk(o) THEN o.body ELSE Absent, {})

\* createStore.view, bookmark and unbookmark: the actor's fetch is handed to
\* ctx.waitUntil and its response is not read
CreateStoreView(o, userId) == Returned(Absent, {<<"users", userId>>})

CreateStoreBookmark(o, userId) == Returned(Absent, {<<"users", userId>>})

CreateStoreUnbookmark(o, userId) == Returned(Absent, {<<"users", userId>>})

\* createStore.backupResources
BackupResources(o, data) == IF ~ResponseOk(o) THEN Thrown ELSE Returned(data, {})

\* createStore.restoreResources
RestoreResources(o) == IF ~ResponseOk(o) THEN Thrown ELSE Returned(Absent, {})

\* ---------------------------------------------------------------- requests, one at a time
RECURSIVE Total(_, _)
Total(f, S) ==
    IF S = {} THEN 0
    ELSE LET i == CHOOSE j \in S : TRUE IN f[i] + Total(f, S \ {i})

\* every create and every refresh that found its resource read the clock once
Refreshes == now - Cardinality(Stored(Current))

TotalViews == Total([i \in Stored(Current) |-> storage[i].viewCounts], Stored(Current))

TotalBookmarks ==
    Total([i \in Stored(Current) |-> Len(storage[i].bookmarked)], Stored(Current))

\* the handler has run to its end: its effects and fetch's response
Handled(o) ==
    /\ storage' = o.state.storage
    /\ resourceIdByURL' = o.state.resourceIdByURL
    /\ resourceIdByPackageName' = o.state.resourceIdByPackageName
    /\ PAGE' = o.state.PAGE
    /\ CONTENT' = o.state.CONTENT
    /\ now' = o.state.now
    /\ thisStore' = o.state.thisStore

\* no invocation is suspended at an await
Quiet == \A p \in Procs : inflight[p].pc \in {"idle", "done"}

\* the callback of blockConcurrencyWhile: createResourceStore loads both
\* indices; no request is delivered before it has finished
Initialize ==
    /\ thisStore = "null"
    /\ thisStore' = "built"
    /\ resourceIdByURL' = LoadIndex(storage, IndexURLKey, EmptyURLIndex)
    /\ resourceIdByPackageName' =
           LoadIndex(storage, IndexPackageNameKey, EmptyPackageNameIndex)
    /\ UNCHANGED <<storage, PAGE, CONTENT, now, backup, retired, inflight>>

\* the runtime evicts the idle object: its memory is gone, its storage stays,
\* and the next request constructs it again.  The runs evict an object that
\* has handled at most one submission and nothing else.
Evict ==
    /\ Built /\ Quiet
    /\ now <= 1 /\ TotalViews = 0 /\ TotalBookmarks = 0
    /\ thisStore' = "null"
    /\ resourceIdByURL' = EmptyURLIndex
    /\ resourceIdByPackageName' = EmptyPackageNameIndex
    /\ retired' = Absent
    /\ UNCHANGED <<storage, PAGE, CONTENT, now, backup, inflight>>

\* POST /submit {url, userId}; `scraped` is what scraping url answers if asked
Submit(userId, url, scraped) ==
    LET o == SubmitOutcome(Current, userId, url, scraped)
    IN  /\ Built
        /\ o.submission = "PUBLISHED" => FreshIds(Current) # {}
        /\ Handled(Fetch(Current, o))
        /\ UNCHANGED <<backup, retired, inflight>>

\* POST /refresh {resourceId, userId}; `scraped` is what re-scraping answers
Refresh(userId, resourceId, scraped) ==
    LET o == RefreshOutcome(Current, userId, resourceId, scraped)
    IN  /\ Built
        /\ o.ok => Refreshes < MaxRefreshes
        /\ Handled(Fetch(Current, o))
        /\ UNCHANGED <<backup, retired, inflight>>

\* GET /details?resourceId=
GetDetails(resourceId) ==
    /\ Built
    /\ Handled(Fetch(Current, GetDetailsOutcome(Current, resourceId)))
    /\ UNCHANGED <<backup, retired, inflight>>

\* PUT /view {resourceId}
View(resourceId) ==
    LET o == ViewOutcome(Current, resourceId)
    IN  /\ Built
        /\ o.ok => TotalViews < MaxViews
        /\ Handled(Fetch(Current, o))
        /\ UNCHANGED <<backup, retired, inflight>>

\* PUT /bookmark {userId, resourceId}
Bookmark(userId, resourceId) ==
    LET o == BookmarkOutcome(Current, userId, resourceId)
    IN  /\ Built
        /\ o.wrote # {} => TotalBookmarks < MaxBookmarks
        /\ Handled(Fetch(Current, o))
        /\ UNCHANGED <<backup, retired, inflight>>

\* DELETE /bookmark {userId, resourceId}
Unbookmark(userId, resourceId) ==
    /\ Built
    /\ Handled(Fetch(Current, UnbookmarkOutcome(Current, userId, resourceId)))
    /\ UNCHANGED <<backup, retired, inflight>>

\* POST /backup: the dump goes to the caller.  The caller keeps one dump,
\* taken of a store that has handled at most one submission and nothing else.
Backup ==
    /\ Built
    /\ ~backup.taken /\ now <= 1 /\ TotalViews = 0 /\ TotalBookmarks = 0
    /\ backup' = [taken |-> TRUE, data |-> BackupData(Current)]
    /\ Handled(Fetch(Current, Respond(Current, TRUE, {})))
    /\ UNCHANGED <<retired, inflight>>

\* the callers whose invocation an await holds
Waiting == {p \in Procs : inflight[p].pc \notin {"idle", "done"}}

\* POST /restore with a dump taken earlier.  this.store becomes a new store
\* with indices of its own; the invocations suspended at an await go on in
\* the store they were called on, with the indices that store has.  One
\* replaced store at a time has invocations under way.
Restore ==
    /\ Built
    /\ backup.taken
    /\ \A p \in Waiting : inflight[p].of = "current"
    /\ Handled(Fetch(Current, RestoreOutcome(Current, backup.data)))
    /\ retired' = IF Waiting # {}
                  THEN [resourceIdByURL |-> resourceIdByURL,
                        resourceIdByPackageName |-> resourceIdByPackageName]
                  ELSE retired
    /\ inflight' = [p \in Procs |-> IF p \in Waiting
                                     THEN [inflight[p] EXCEPT !.of = "retired"]
                                     ELSE inflight[p]]
    /\ UNCHANGED backup

\* the web the runs are driven with: the page at "a" is a package, the page
\* at "b" is not; either can be flagged unsafe and redirect to the other
Web == {p \in ScrapedPages : p.category = "package" <=> p.url = "a"}

\* what the scraper is asked for: nothing when the page is stored
Scrapes(url) == IF IsPresent(PAGE[url]) THEN {PAGE[url]} ELSE Web

\* the users whose submissions and refreshes are stored: createdBy and
\* updatedBy are written and never read
Submitters == {"u1"}
Refreshers == {"u2"}

Next ==
    \/ \E u \in Submitters, url \in URLs : \E s \in Scrapes(url) : Submit(u, url, s)
    \/ \E u \in Refreshers, i \in Ids \cup {NoId}, s \in Web : Refresh(u, i, s)
    \/ \E i \in Ids \cup {NoId} : GetDetails(i)
    \/ \E i \in Ids \cup {NoId} : View(i)
    \/ \E u \in Users, i \in Ids \cup {NoId} : Bookmark(u, i)
    \/ \E u \in Users, i \in Ids \cup {NoId} : Unbookmark(u, i)
    \/ Backup
    \/ Restore
    \/ Initialize
    \/ Evict

Spec == Init /\ [][Next]_vars

\* ---------------------------------------------------------------- requests that interleave
\* fetch is entered again while an invocation waits for the scraper, the page
\* store or the content store; a storage get followed by a put in the same
\* turn is not interrupted.

\* an invocation of caller's n-th call that has returned
Done(n, op, ok, id, submission, page) ==
    [pc |-> "done", op |-> op, ok |-> ok, id |-> id, submission |-> submission,
     page |-> page, resource |-> Absent, userId |-> NoUser, calls |-> n,
     of |-> "current"]

\* an invocation suspended at pc, called on the store `of`
Suspended(n, pc, op, userId, page, resource, of) ==
    [pc |-> pc, op |-> op, ok |-> FALSE, id |-> NoId, submission |-> "none",
     page |-> page, resource |-> resource, userId |-> userId, calls |-> n,
     of |-> of]

Free(p) == inflight[p].pc \in {"idle", "done"} /\ inflight[p].calls < MaxCalls

\* the indices the invocation of p closes over: those of the store it was
\* called on
URLIndexOf(p) ==
    IF inflight[p].of = "retired" THEN retired.resourceIdByURL ELSE resourceIdByURL

PackageNameIndexOf(p) ==
    IF inflight[p].of = "retired" THEN retired.resourceIdByPackageName
    ELSE resourceIdByPackageName

\* submit from `resourceIdByURL[page.url]` to createResource's
\* `await CONTENT.put`, or to its return when it creates nothing
SubmitPage(p, n, userId, page) ==
    LET known == LookupURL(URLIndexOf(p), page)
        summary == NewSummary(GenerateId(Current), page, userId, now)
    IN  IF known # NoId
        THEN /\ inflight' = [inflight EXCEPT
                               ![p] = Done(n, "submit", TRUE, known, "RESUBMITTED", page)]
             /\ UNCHANGED <<storage, now>>
        ELSE IF ~page.isSafe
        THEN /\ inflight' = [inflight EXCEPT
                               ![p] = Done(n, "submit", TRUE, NoId, "INVALID", page)]
             /\ UNCHANGED <<storage, now>>
        ELSE /\ FreshIds(Current) # {}
             /\ storage' = PutSummary(storage, summary)
             /\ now' = now + 1
             /\ inflight' = [inflight EXCEPT
                               ![p] = Suspended(n, "content", "submit", userId, page,
                                                summary, inflight[p].of)]

\* submit is called and PAGE.get(url) answers
BeginSubmit(p, userId, url) ==
    /\ Built /\ Free(p)
    /\ IF IsPresent(PAGE[url])
       THEN SubmitPage(p, inflight[p].calls + 1, userId, PAGE[url])
       ELSE /\ inflight' = [inflight EXCEPT
                              ![p] = Suspended(inflight[p].calls + 1, "scrape",
                                               "submit", userId, [url |-> url],
                                               Absent, "current")]
            /\ UNCHANGED <<storage, now>>
    /\ UNCHANGED <<resourceIdByURL, resourceIdByPackageName, PAGE, CONTENT, backup,
                   thisStore, retired>>

\* scrapeHTML, getPageDetails and checkSafeBrowsingAPI answer submit
SubmitScraped(p, scraped) ==
    /\ inflight[p].pc = "scrape" /\ inflight[p].op = "submit"
    /\ PAGE' = [PAGE EXCEPT ![scraped.url] = scraped]
    /\ SubmitPage(p, inflight[p].calls, inflight[p].userId, scraped)
    /\ UNCHANGED <<resourceIdByURL, resourceIdByPackageName, CONTENT, backup,
                   thisStore, retired>>

\* CONTENT.put answers createResource: the package name, then submit's url
SubmitStored(p) ==
    LET c == inflight[p]
        names == IF c.page.category = "package"
                 THEN RegisterPackageName(PackageNameIndexOf(p), c.page, c.resource.id)
                 ELSE PackageNameIndexOf(p)
        index == RegisterURL(URLIndexOf(p), c.page, c.resource.id)
        stored == IF c.page.category = "package"
                  THEN PutIndex(storage, IndexPackageNameKey, names)
                  ELSE storage
    IN  /\ c.pc = "content" /\ c.op = "submit"
        /\ CONTENT' = UpdateResourceCache(CONTENT, PAGE, c.resource, c.page)
        /\ IF c.of = "retired"
           THEN /\ retired' = [resourceIdByURL |-> index,
                               resourceIdByPackageName |-> names]
                /\ UNCHANGED <<resourceIdByURL, resourceIdByPackageName>>
           ELSE /\ resourceIdByPackageName' = names
                /\ resourceIdByURL' = index
                /\ UNCHANGED retired
        /\ storage' = PutIndex(stored, IndexURLKey, index)
        /\ inflight' = [inflight EXCEPT
                          ![p] = Done(c.calls, "submit", TRUE, c.resource.id,
                                      "PUBLISHED", c.page)]
        /\ UNCHANGED <<PAGE, now, backup, thisStore>>

\* refresh is called and getResource answers
BeginRefresh(p, userId, resourceId) ==
    LET resource == GetResource(Current, resourceId)
        n == inflight[p].calls + 1
    IN  /\ Built /\ Free(p)
        /\ inflight' = [inflight EXCEPT
                          ![p] = IF IsPresent(resource)
                                 THEN Suspended(n, "scrape", "refresh", userId,
                                                [url |-> resource.url], resource,
                                                "current")
                                 ELSE Done(n, "refresh", FALSE, NoId, "none", Absent)]
        /\ UNCHANGED <<storage, resourceIdByURL, resourceIdByPackageName, PAGE,
                       CONTENT, now, backup, thisStore, retired>>

\* the four awaited answers arrive: both PAGE.put, then updateResource's
\* storage.put of the summary read when refresh began
RefreshScraped(p, scraped) ==
    LET c == inflight[p]
        updated == Refreshed(c.resource, scraped, c.userId, now)
    IN  /\ c.pc = "scrape" /\ c.op = "refresh"
        /\ Refreshes < MaxRefreshes
        /\ PAGE' = RefreshedPages(PAGE, c.resource, scraped)
        /\ storage' = PutSummary(storage, updated)
        /\ now' = now + 1
        /\ inflight' = [inflight EXCEPT
                          ![p] = Suspended(c.calls, "content", "refresh", c.userId,
                                           scraped, updated, c.of)]
        /\ UNCHANGED <<resourceIdByURL, resourceIdByPackageName, CONTENT, backup,
                       thisStore, retired>>

\* CONTENT.put answers refresh
RefreshStored(p) ==
    LET c == inflight[p]
    IN  /\ c.pc = "content" /\ c.op = "refresh"
        /\ CONTENT' = UpdateResourceCache(CONTENT, PAGE, c.resource, c.page)
        /\ inflight' = [inflight EXCEPT
                          ![p] = Done(c.calls, "refresh", TRUE, NoId, "none", c.page)]
        /\ UNCHANGED <<storage, resourceIdByURL, resourceIdByPackageName, PAGE, now,
                       backup, thisStore, retired>>

NextConc ==
    \/ \E p \in Procs, u \in Submitters, url \in URLs : BeginSubmit(p, u, url)
    \/ \E p \in Procs, s \in Web : SubmitScraped(p, s)
    \/ \E p \in Procs : SubmitStored(p)
    \/ \E p \in Procs, u \in Refreshers, i \in Ids \cup {NoId} : BeginRefresh(p, u, i)
    \/ \E p \in Procs, s \in Web : RefreshScraped(p, s)
    \/ \E p \in Procs : RefreshStored(p)
    \/ \E i \in Ids : View(i)
    \/ \E u \in Users, i \in Ids : Bookmark(u, i)
    \/ \E u \in Users, i \in Ids : Unbookmark(u, i)
    \/ Initialize

SpecConc == Init /\ [][NextConc]_vars

\* the interleaved requests, with a dump taken and restored among them
NextRestore ==
    \/ NextConc
    \/ Backup
    \/ Restore

SpecRestore == Init /\ [][NextRestore]_vars

\* ---------------------------------------------------------------- claims
\* the parts of a state the claims compare
Records(st) == [i \in Ids |-> st.storage[i]]

SameActor(st1, st2) ==
    /\ st1.storage = st2.storage
    /\ st1.resourceIdByURL = st2.resourceIdByURL
    /\ st1.resourceIdByPackageName = st2.resourceIdByPackageName
    /\ st1.CONTENT = st2.CONTENT

SummariesAt(st, url) == {i \in Stored(st) : st.storage[i].url = url}

Count(seq, x) == Cardinality({k \in 1..Len(seq) : seq[k] = x})

\* C1: submitting a url whose page is safe and not yet indexed returns
\* PUBLISHED (201) with an id in use nowhere; every later submit of the same
\* url, by the same or another user, while the url still leads to that page,
\* returns RESUBMITTED with that id, and no summary is added after the first.
C1_DedupIdempotence ==
    Built =>
    \A u1 \in Users, u2 \in Users, url \in URLs, s \in ScrapedPages :
        LET page == SubmittedPage(Current, url, s)
            o1 == SubmitOutcome(Current, u1, url, s)
        IN  (/\ page.isSafe
             /\ LookupURL(resourceIdByURL, page) = NoId
             /\ FreshIds(Current) # {})
            => /\ o1.submission = "PUBLISHED" /\ o1.http = 201
               /\ o1.id \in FreshIds(Current)
               /\ Stored(o1.state) = Stored(Current) \cup {o1.id}
               /\ \A s2 \in {p \in ScrapedPages : p.url = s.url} :
                    LET o2 == SubmitOutcome(o1.state, u2, url, s2)
                        o3 == SubmitOutcome(o2.state, u1, url, s2)
                    IN  /\ o2.submission = "RESUBMITTED" /\ o2.id = o1.id
                        /\ o3.submission = "RESUBMITTED" /\ o3.id = o1.id
                        /\ Records(o2.state) = Records(o1.state)
                        /\ Records(o3.state) = Records(o1.state)

\* a url has been published and is answered from the index, while another
\* url can still be published
C1_Witness ==
    \E url \in URLs, other \in URLs :
        /\ Built
        /\ resourceIdByURL[url] \in Stored(Current)
        /\ IsPresent(PAGE[url]) /\ PAGE[url].url = url
        /\ resourceIdByURL[other] = NoId
        /\ FreshIds(Current) # {}

\* C2: no two summaries in actor storage have the same url.
C2_OneSummaryPerURL ==
    \A i \in Stored(Current), j \in Stored(Current) :
        storage[i].url = storage[j].url => i = j

\* C3: a submit whose page (stored or scraped) is flagged unsafe returns
\* {id: null, status: INVALID} and leaves both indices, the summaries and the
\* content store as they were, whether or not the url is indexed.
C3_SafetyGate ==
    Built =>
    \A u \in Users, url \in URLs, s \in ScrapedPages :
        LET o == SubmitOutcome(Current, u, url, s)
        IN  ~SubmittedPage(Current, url, s).isSafe
            => /\ o.id = NoId /\ o.submission = "INVALID"
               /\ SameActor(o.state, Current)

\* n calls of view(id) in a row: the state they leave, and whether each
\* returned true with a 200 response
RECURSIVE ViewTimes(_, _, _)
ViewTimes(st, id, n) ==
    IF n = 0 THEN [state |-> st, ok |-> TRUE]
    ELSE LET before == ViewTimes(st, id, n - 1)
             o == ViewOutcome(before.state, id)
         IN  [state |-> o.state, ok |-> before.ok /\ o.ok /\ o.http = 200]

\* C4: n calls of view(id) on an existing resource each return true and leave
\* its summary with viewCounts n higher and every other field as it was.
C4_ViewCounts ==
    Built =>
    \A id \in Stored(Current), n \in 0..MaxRepeat :
        LET r == ViewTimes(Current, id, n)
        IN  /\ r.ok
            /\ r.state.storage[id] = [storage[id] EXCEPT !.viewCounts = @ + n]

\* a resource has been viewed more than once
C4_Witness == Built /\ \E id \in Stored(Current) : storage[id].viewCounts >= 2

\* C5: viewCounts of a resource never decreases (no restore is taken here),
\* also when a view is handled while a refresh of the resource is suspended.
C5_ViewCountsNeverDecrease ==
    [][\A i \in Stored(Current) :
          storage'[i].viewCounts >= storage[i].viewCounts]_vars

\* C6: of two submits of the same safe page at most one returns PUBLISHED,
\* both return the same id, and one summary and one index entry exist for
\* the url.
C6_RaceFreeIndex ==
    \A p \in Procs, q \in Procs :
        (/\ p # q
         /\ inflight[p].pc = "done" /\ inflight[p].op = "submit"
         /\ inflight[q].pc = "done" /\ inflight[q].op = "submit"
         /\ inflight[p].page.isSafe /\ inflight[q].page.isSafe
         /\ inflight[p].page.url = inflight[q].page.url)
        => /\ ~(inflight[p].submission = "PUBLISHED"
                /\ inflight[q].submission = "PUBLISHED")
           /\ inflight[p].id = inflight[q].id
           /\ SummariesAt(Current, inflight[p].page.url) = {inflight[p].id}
           /\ resourceIdByURL[inflight[p].page.url] = inflight[p].id

\* C7: no stored bookmarked list holds a user twice; after bookmark(u, id)
\* twice u is in it once, after unbookmark(u, id) u is not in it.
C7_NoDuplicateBookmarks ==
    Built =>
    \A id \in Stored(Current), u \in Users :
        LET once == BookmarkOutcome(Current, u, id)
            twice == BookmarkOutcome(once.state, u, id)
            gone == UnbookmarkOutcome(Current, u, id)
        IN  /\ Count(storage[id].bookmarked, u) <= 1
            /\ once.ok /\ twice.ok /\ gone.ok
            /\ Count(twice.state.storage[id].bookmarked, u) = 1
            /\ Count(gone.state.storage[id].bookmarked, u) = 0

\* a user has bookmarked a resource
C7_Witness ==
    /\ Built
    /\ \E id \in Stored(Current), u \in Users : Includes(storage[id].bookmarked, u)

\* C8: bookmark by a user already in bookmarked, and unbookmark by a user
\* not in it, return true (200) and put nothing: actor storage and the
\* content store get no write.
C8_UnchangedSetNoWrite ==
    Built =>
    \A id \in Stored(Current), u \in Users :
        LET o == IF Includes(storage[id].bookmarked, u)
                 THEN BookmarkOutcome(Current, u, id)
                 ELSE UnbookmarkOutcome(Current, u, id)
        IN  /\ o.ok /\ o.http = 200
            /\ o.wrote = {}
            /\ o.state = Current

\* a resource is bookmarked by one user and not by the other
C8_Witness ==
    \E id \in Stored(Current), u \in Users, v \in Users :
        /\ Built
        /\ Includes(storage[id].bookmarked, u)
        /\ ~Includes(storage[id].bookmarked, v)

\* C9: view, bookmark, unbookmark and refresh of an id with no record (the
\* null id among them) return false, put nothing, leave the actor and both
\* stores as they were, and fetch answers 404.
C9_NotFound ==
    Built =>
    \A id \in (Ids \cup {NoId}) \ Stored(Current) :
        \A o \in {ViewOutcome(Current, id)}
                 \cup {BookmarkOutcome(Current, u, id) : u \in Users}
                 \cup {UnbookmarkOutcome(Current, u, id) : u \in Users}
                 \cup {RefreshOutcome(Current, u, id, s) :
                           u \in Users, s \in ScrapedPages} :
            /\ ~o.ok
            /\ o.http = 404
            /\ o.wrote = {}
            /\ o.state = Current

\* some resources are stored and an id has no record
C9_Witness == Built /\ Stored(Current) # {} /\ Ids \ Stored(Current) # {}

\* C10: restore(backup()) leaves every summary and both index blobs as they
\* were, and afterwards a submit of any url in the url index returns
\* RESUBMITTED with the id the index held.
C10_BackupRestoreRoundTrip ==
    Built =>
    LET o == RestoreOutcome(Current, BackupData(Current))
    IN  /\ o.state.storage = storage
        /\ \A url \in URLs, u \in Users, s \in ScrapedPages :
              resourceIdByURL[url] # NoId
              => LET again == SubmitOutcome(o.state, u, url, s)
                 IN  /\ again.submission = "RESUBMITTED"
                     /\ again.id = resourceIdByURL[url]

\* C11: after restore(data) the durable key space is exactly data: every key
\* of data holds data's value and no key absent from data remains.
C11_RestoreOverwrites ==
    (Built /\ backup.taken)
    => RestoreOutcome(Current, backup.data).state.storage = backup.data

\* C12: when restore answers, the indices in memory are those of durable
\* storage at that moment, and from then on no invocation takes a step with
\* the indices of the store that the restore replaced.
C12_IndicesReloaded ==
    [][/\ Restore
          => /\ resourceIdByURL' = LoadIndex(storage', IndexURLKey, EmptyURLIndex)
             /\ resourceIdByPackageName' =
                    LoadIndex(storage', IndexPackageNameKey, EmptyPackageNameIndex)
       /\ \A p \in Procs :
            inflight[p].of = "retired" => inflight'[p] = inflight[p]]_vars

\* C13: while this.store is null a request does nothing and is answered 500,
\* and the one step taken is createResourceStore loading both indices from
\* durable storage; the requests are handled after it.
C13_LoadedBeforeServed ==
    [][thisStore = "null"
       => /\ \A u \in Users, url \in URLs, i \in Ids \cup {NoId}, s \in ScrapedPages :
               \A o \in {SubmitOutcome(Current, u, url, s),
                         RefreshOutcome(Current, u, i, s),
                         ViewOutcome(Current, i),
                         BookmarkOutcome(Current, u, i),
                         UnbookmarkOutcome(Current, u, i),
                         Respond(Current, TRUE, {}),
                         RestoreOutcome(Current, backup.data)} :
                  LET served == Fetch(Current, o)
                  IN  /\ served.http = 500
                      /\ served.wrote = {}
                      /\ served.state = Current
          /\ thisStore' = "built"
          /\ resourceIdByURL' = LoadIndex(storage, IndexURLKey, EmptyURLIndex)
          /\ resourceIdByPackageName' =
                 LoadIndex(storage, IndexPackageNameKey, EmptyPackageNameIndex)
          /\ UNCHANGED <<storage, PAGE, CONTENT>>]_vars

\* the object was evicted with a resource stored and indexed, and is being
\* constructed again
C13_Witness ==
    /\ thisStore = "null"
    /\ \E url \in URLs :
          LoadIndex(storage, IndexURLKey, EmptyURLIndex)[url] \in Stored(Current)

\* C14: a submit whose page is a package with a title already in the package
\* name index stores no further summary and leaves the id the index maps
\* the name to as it was.
C14_OnePerPackageName ==
    Built =>
    \A u \in Users, url \in URLs, s \in ScrapedPages :
        LET page == SubmittedPage(Current, url, s)
            o == SubmitOutcome(Current, u, url, s)
        IN  (/\ page.category = "package"
             /\ resourceIdByPackageName[page.title] # NoId
             /\ FreshIds(Current) # {})
            => /\ Stored(o.state) = Stored(Current)
               /\ o.state.resourceIdByPackageName[page.title] =
                      resourceIdByPackageName[page.title]

\* C15: an operation in which a storage, page-store or content-store call
\* failed is answered 500, never 200; view with a failing call among them.
C15_ExceptionsAnswered500 ==
    Built =>
    \A id \in Stored(Current), call \in ViewCalls :
        Fetch(Current, ViewFailing(Current, id, call)).http = 500

\* C17: getDetails of an existing id answers the full Resource, the summary
\* together with the page-derived fields, and null for an id with no record;
\* it leaves actor storage and both indices as they were.
C17_DetailsFullResource ==
    Built =>
    \A id \in Ids \cup {NoId} :
        LET o == GetDetailsOutcome(Current, id)
        IN  /\ o.state.storage = storage
            /\ o.state.resourceIdByURL = resourceIdByURL
            /\ o.state.resourceIdByPackageName = resourceIdByPackageName
            /\ id \notin Stored(Current) => o.body = Absent
            /\ (id \in Stored(Current) /\ IsPresent(PAGE[storage[id].url]))
               => /\ o.http = 200
                  /\ o.body = ContentEntry(storage[id], PAGE[storage[id].url]).resource

\* C19: for every summary in actor storage the content-store entry carries
\* the same id, url, bookmarked and viewCounts, and its metadata has the same
\* viewCounts and bookmarkCounts equal to the length of bookmarked.
C19_LayersCoherent ==
    \A id \in Stored(Current) :
        /\ IsPresent(CONTENT[id])
        /\ CONTENT[id].resource.id = storage[id].id
        /\ CONTENT[id].resource.url = storage[id].url
        /\ CONTENT[id].resource.bookmarked = storage[id].bookmarked
        /\ CONTENT[id].resource.viewCounts = storage[id].viewCounts
        /\ CONTENT[id].metadata.viewCounts = storage[id].viewCounts
        /\ CONTENT[id].metadata.bookmarkCounts = Len(storage[id].bookmarked)

\* C16: for query, submit, refresh, view, bookmark, unbookmark,
\* backupResources and restoreResources, a response of the actor that is not
\* a success makes the facade's call throw to its caller.
C16_FacadeRaises ==
    Built =>
    \A u \in Users, url \in URLs, id \in Ids \cup {NoId}, s \in ScrapedPages :
        \A call \in
            {<<GetDetailsOutcome(Current, id),
               CreateStoreQuery(GetDetailsOutcome(Current, id), id)>>,
             <<ServerError(Current), CreateStoreSubmit(ServerError(Current), FALSE)>>,
             <<RefreshOutcome(Current, u, id, s),
               CreateStoreRefresh(RefreshOutcome(Current, u, id, s), id)>>,
             <<ViewOutcome(Current, id),
               CreateStoreView(ViewOutcome(Current, id), u)>>,
             <<BookmarkOutcome(Current, u, id),
               CreateStoreBookmark(BookmarkOutcome(Current, u, id), u)>>,
             <<UnbookmarkOutcome(Current, u, id),
               CreateStoreUnbookmark(UnbookmarkOutcome(Current, u, id), u)>>,
             <<ServerError(Current),
               BackupResources(ServerError(Current), BackupData(Current))>>,
             <<ServerError(Current), RestoreResources(ServerError(Current))>>} :
            ~ResponseOk(call[1]) => call[2].raised

\* C18: createStore.submit hands the removal of the 'resources' cache entry
\* to ctx.waitUntil exactly when the actor answered PUBLISHED; for
\* RESUBMITTED, INVALID and a failed submission it removes nothing; the
\* result is returned whether or not the removal fails.
C18_ListCacheDropped ==
    Built =>
    /\ \A removeCacheFails \in BOOLEAN :
          CreateStoreSubmit(ServerError(Current), removeCacheFails) = Thrown
    /\ \A u \in Users, url \in URLs :
          \A s \in Answers(Current, url) :
              LET o == Fetch(Current, SubmitOutcome(Current, u, url, s))
                  done == [raised |-> FALSE,
                           result |-> [id |-> o.id, status |-> o.submission],
                           removes |-> IF o.submission = "PUBLISHED"
                                       THEN {"resources"} ELSE {}]
              IN  \A removeCacheFails \in BOOLEAN :
                      CreateStoreSubmit(o, removeCacheFails) = done

\* a submit can be answered PUBLISHED, RESUBMITTED and INVALID
C18_Witness ==
    /\ Built
    /\ FreshIds(Current) # {}
    /\ \A status \in {"PUBLISHED", "RESUBMITTED", "INVALID"} :
          \E u \in Users, url \in URLs, s \in ScrapedPages :
              SubmitOutcome(Current, u, url, s).submission = status

\* C20: refresh of an existing resource returns true and keeps the summary's
\* id, createdAt, createdBy, bookmarked and viewCounts; when the re-scraped
\* page has another url the summary gets that url, a new updatedAt and the
\* refreshing user as updatedBy, and the page store holds the refreshed page
\* under the old and the new url; otherwise the summary is as it was.
C20_RefreshFrame ==
    Built =>
    \A id \in Stored(Current), u \in Users, s \in ScrapedPages :
        LET o == RefreshOutcome(Current, u, id, s)
            old == storage[id]
            new == o.state.storage[id]
        IN  /\ o.ok /\ o.http = 200
            /\ new.id = old.id
            /\ new.createdAt = old.createdAt /\ new.createdBy = old.createdBy
            /\ new.bookmarked = old.bookmarked /\ new.viewCounts = old.viewCounts
            /\ o.state.PAGE[s.url] = s
            /\ IF s.url # old.url
               THEN /\ new.url = s.url
                    /\ new.updatedAt # old.updatedAt /\ new.updatedAt = now
                    /\ new.updatedBy = u
                    /\ o.state.PAGE[old.url] = s
               ELSE new = old

\* a refresh has moved a summary to another url
C20_Witness ==
    /\ Built
    /\ \E id \in Stored(Current) : storage[id].updatedAt # storage[id].createdAt

\* C21: in every state reached by requests served one at a time, every
\* entry url -> id of the url index has a stored summary with that id whose
\* url is the key, every stored summary's url is a key of the index that
\* maps to the summary's id, and the index in memory equals the persisted
\* 'index/URL' blob.
C21_IndexRecordAgreement ==
    Built =>
    /\ \A url \in URLs :
          resourceIdByURL[url] # NoId =>
              /\ resourceIdByURL[url] \in Stored(Current)
              /\ storage[resourceIdByURL[url]].url = url
    /\ \A id \in Stored(Current) : resourceIdByURL[storage[id].url] = id
    /\ resourceIdByURL = LoadIndex(storage, IndexURLKey, EmptyURLIndex)

\* C22: a submit of a new safe url that fails with an error leaves no
\* summary of that submission in actor storage and changes neither index,
\* so that submitting the url again answers PUBLISHED and leaves exactly
\* one summary with the url.
C22_SubmitAllOrNothing ==
    Built =>
    \A u \in Users, url \in URLs :
        \A s \in Answers(Current, url) :
            LET page == SubmittedPage(Current, url, s)
                failed == SubmitFailing(Current, u, url, s)
                retry == SubmitOutcome(failed.state, u, url, s)
            IN  (/\ page.isSafe
                 /\ LookupURL(resourceIdByURL, page) = NoId
                 /\ SummariesAt(Current, page.url) = {}
                 /\ Cardinality(FreshIds(Current)) >= 2)
                => /\ failed.http = 500
                   /\ Stored(failed.state) = Stored(Current)
                   /\ failed.state.resourceIdByURL = resourceIdByURL
                   /\ failed.state.resourceIdByPackageName = resourceIdByPackageName
                   /\ failed.state.storage[IndexURLKey] = storage[IndexURLKey]
                   /\ failed.state.storage[IndexPackageNameKey] =
                          storage[IndexPackageNameKey]
                   /\ retry.submission = "PUBLISHED"
                   /\ Cardinality(SummariesAt(retry.state, page.url)) = 1

\* C23: when a submit suspended at an await while /restore wrote storage
\* and replaced the store resumes, the index blobs it puts are not the maps
\* of the replaced store: every entry of the persisted 'index/URL' and
\* 'index/PackageName' other than the submission's own is after its step
\* what it was before, so that the restored entries stay persisted.
C23_RestoreNotUndone ==
    [][\A p \in Procs :
         (/\ inflight[p].of = "retired"
          /\ inflight[p].op = "submit" /\ inflight[p].pc = "content"
          /\ inflight'[p].pc = "done")
         => /\ \A url \in URLs \ {inflight[p].page.url} :
                  LoadIndex(storage', IndexURLKey, EmptyURLIndex)[url]
                      = LoadIndex(storage, IndexURLKey, EmptyURLIndex)[url]
            /\ \A t \in Titles :
                  (inflight[p].page.category # "package" \/ t # inflight[p].page.title)
                  => LoadIndex(storage', IndexPackageNameKey,
                               EmptyPackageNameIndex)[t]
                         = LoadIndex(storage, IndexPackageNameKey,
                                     EmptyPackageNameIndex)[t]]_vars

====
